---- MODULE Spec2Model ----
(***************************************************************************)
(* Model of experiment-tracking/actions/ModelGatewayActions.ts: the three  *)
(* asynchronous action creators of the model gateway                       *)
(*   searchModelGatewayRoutesApi, getModelGatewayRouteApi,                 *)
(*   queryModelGatewayRouteApi                                             *)
(* together with the collaborators they call (the proxy client, the        *)
(* correlation-id generator, the clock) and the event loop that settles    *)
(* the promises of the requests in flight.                                 *)
(*                                                                         *)
(* Strings are TLA+ strings and a template literal is \o.  A promise is    *)
(* its index in `promises`.  An optional string argument is a tagged value *)
(* so that `undefined` is distinct from every string.                      *)
(***************************************************************************)
EXTENDS Integers, Sequences, FiniteSets, TLC

VARIABLES
    calls,        \* requests handed to the proxy client, in order of issue
    promises,     \* promises[p]: state of the promise the proxy returned
    uuid,         \* next value of the correlation-id generator
    clock,        \* performance.now()
    log,          \* the collaborators' calls, in order of evaluation
    actions,      \* actions returned by the creators, in order of return
    invocations   \* the creator and arguments of each call, in order

vars == <<calls, promises, uuid, clock, log, actions, invocations>>

\* ---------------------------------------------------------------- bounds
MaxCalls == 2
MaxClock == 1

\* ---------------------------------------------------------------- inputs
JSUndefined == [type |-> "undefined"]
JSString(s) == [type |-> "string", value |-> s]

FilterStrings == {"", " name = 'chat' "}
Filters == {JSUndefined} \cup {JSString(s) : s \in FilterStrings}

RouteNames == {"", "chat", " chat"}

Routes ==
    {[name |-> "chat", route_type |-> "llm/v1/chat"],
     [name |-> " chat", route_type |-> "llm/v1/chat"],
     [name |-> "", route_type |-> "llm/v1/completions"]}

\* {}
EmptyObject == <<>>

QueryPayloads == {[prompt |-> "hi"], [data |-> "hi"]}

Responses == {"response"}
Errors == {"HTTP 500", "transport"}

\* ------------------------------------------------------- action types
SEARCH_MODEL_GATEWAY_ROUTES_API == "SEARCH_MODEL_GATEWAY_ROUTES_API"
GET_MODEL_GATEWAY_ROUTE_API == "GET_MODEL_GATEWAY_ROUTE_API"
QUERY_MODEL_GATEWAY_ROUTE_API == "QUERY_MODEL_GATEWAY_ROUTE_API"

\* ------------------------------------------------------- collaborators
\* The environment a creator runs in, threaded through the calls it makes in
\* the order JavaScript evaluates them.
World ==
    [calls |-> calls, promises |-> promises, uuid |-> uuid,
     clock |-> clock, log |-> log]

Pending == [state |-> "pending", value |-> ""]

\* The proxy client: records the request, returns a new pending promise.
Proxy(w, method, step, request) ==
    LET p == Len(w.promises) + 1
    IN  [w |-> [w EXCEPT
                  !.calls = Append(@, [method |-> method, request |-> request,
                                       promise |-> p]),
                  !.promises = Append(@, Pending),
                  !.log = Append(@, [step |-> step, ref |-> p])],
         value |-> p]

gatewayProxyGet(w, request) == Proxy(w, "GET", "gatewayProxyGet", request)

gatewayProxyPost(w, request) == Proxy(w, "POST", "gatewayProxyPost", request)

\* The correlation-id generator: never returns the same value twice.
getUUID(w) ==
    [w |-> [w EXCEPT !.uuid = @ + 1,
                     !.log = Append(@, [step |-> "getUUID", ref |-> w.uuid])],
     value |-> w.uuid]

\* performance.now()
performanceNow(w) ==
    [w |-> [w EXCEPT !.log = Append(@, [step |-> "performance.now", ref |-> w.clock])],
     value |-> w.clock]

\* ------------------------------------------------------- the creators
\* Variant: a missing filter is replaced by the empty string.
searchModelGatewayRoutesApi_defaulted(w, filter) ==
    LET payload == gatewayProxyGet(w,
                       [gateway_path |-> "api/2.0/gateway/routes/",
                        json_data |-> [filter |-> IF filter = JSUndefined
                                                  THEN JSString("") ELSE filter]])
        id == getUUID(payload.w)
    IN  [w |-> id.w,
         value |-> [type |-> SEARCH_MODEL_GATEWAY_ROUTES_API,
                    payload |-> payload.value,
                    meta |-> [id |-> id.value]]]

\* Variant: the payload is a promise chained on the proxy's promise by a
\* rejection handler, not the proxy's promise itself.
searchModelGatewayRoutesApi_caught(w, filter) ==
    LET payload == gatewayProxyGet(w,
                       [gateway_path |-> "api/2.0/gateway/routes/",
                        json_data |-> [filter |-> filter]])
        chained == [payload.w EXCEPT !.promises = Append(@, Pending)]
        id == getUUID(chained)
    IN  [w |-> id.w,
         value |-> [type |-> SEARCH_MODEL_GATEWAY_ROUTES_API,
                    payload |-> Len(chained.promises),
                    meta |-> [id |-> id.value]]]

\* Variant: the list-routes action records a start time as well.
searchModelGatewayRoutesApi_timed(w, filter) ==
    LET payload == gatewayProxyGet(w,
                       [gateway_path |-> "api/2.0/gateway/routes/",
                        json_data |-> [filter |-> filter]])
        id == getUUID(payload.w)
        startTime == performanceNow(id.w)
    IN  [w |-> startTime.w,
         value |-> [type |-> SEARCH_MODEL_GATEWAY_ROUTES_API,
                    payload |-> payload.value,
                    meta |-> [id |-> id.value, startTime |-> startTime.value]]]

searchModelGatewayRoutesApi(w, filter) ==
    LET payload == gatewayProxyGet(w,
                       [gateway_path |-> "api/2.0/gateway/routes/",
                        json_data |-> [filter |-> filter]])
        id == getUUID(payload.w)
    IN  [w |-> id.w,
         value |-> [type |-> SEARCH_MODEL_GATEWAY_ROUTES_API,
                    payload |-> payload.value,
                    meta |-> [id |-> id.value]]]

\* Variants of the route name: percent-encoded, trimmed.
Encoded(routeName) == IF routeName = " chat" THEN "%20chat" ELSE routeName

Trimmed(routeName) == IF routeName = " chat" THEN "chat" ELSE routeName

\* Variant: the route name is percent-encoded before it enters the path.
getModelGatewayRouteApi_encoded(w, routeName) ==
    LET payload == gatewayProxyGet(w,
                       [gateway_path |-> "api/2.0/gateway/routes/" \o Encoded(routeName),
                        json_data |-> EmptyObject])
        id == getUUID(payload.w)
    IN  [w |-> id.w,
         value |-> [type |-> GET_MODEL_GATEWAY_ROUTE_API,
                    payload |-> payload.value,
                    meta |-> [id |-> id.value]]]

\* Variant: the route name is trimmed before it enters the path.
getModelGatewayRouteApi_trimmed(w, routeName) ==
    LET payload == gatewayProxyGet(w,
                       [gateway_path |-> "api/2.0/gateway/routes/" \o Trimmed(routeName),
                        json_data |-> EmptyObject])
        id == getUUID(payload.w)
    IN  [w |-> id.w,
         value |-> [type |-> GET_MODEL_GATEWAY_ROUTE_API,
                    payload |-> payload.value,
                    meta |-> [id |-> id.value]]]

\* Variant: the correlation id is generated once and reused by every call.
getModelGatewayRouteApi_sharedId(w, routeName) ==
    LET payload == gatewayProxyGet(w,
                       [gateway_path |-> "api/2.0/gateway/routes/" \o routeName,
                        json_data |-> EmptyObject])
    IN  [w |-> payload.w,
         value |-> [type |-> GET_MODEL_GATEWAY_ROUTE_API,
                    payload |-> payload.value,
                    meta |-> [id |-> 0]]]

\* Variant: a route already requested is answered from the earlier request.
getModelGatewayRouteApi_cached(w, routeName) ==
    LET request == [gateway_path |-> "api/2.0/gateway/routes/" \o routeName,
                    json_data |-> EmptyObject]
        earlier == {k \in DOMAIN w.calls :
                       w.calls[k].method = "GET" /\ w.calls[k].request = request}
        payload == IF earlier = {}
                   THEN gatewayProxyGet(w, request)
                   ELSE [w |-> w, value |-> w.calls[CHOOSE k \in earlier : TRUE].promise]
        id == getUUID(payload.w)
    IN  [w |-> id.w,
         value |-> [type |-> GET_MODEL_GATEWAY_ROUTE_API,
                    payload |-> payload.value,
                    meta |-> [id |-> id.value]]]

getModelGatewayRouteApi(w, routeName) ==
    LET payload == gatewayProxyGet(w,
                       [gateway_path |-> "api/2.0/gateway/routes/" \o routeName,
                        json_data |-> EmptyObject])
        id == getUUID(payload.w)
    IN  [w |-> id.w,
         value |-> [type |-> GET_MODEL_GATEWAY_ROUTE_API,
                    payload |-> payload.value,
                    meta |-> [id |-> id.value]]]

\* Variant: the query payload is sent as the body itself, not under 'data'.
queryModelGatewayRouteApi_unwrapped(w, route, data) ==
    LET payload == gatewayProxyPost(w,
                       [gateway_path |-> "api/2.0/gateway/" \o route.name \o "/invocations",
                        json_data |-> data])
        id == getUUID(payload.w)
        startTime == performanceNow(id.w)
    IN  [w |-> startTime.w,
         value |-> [type |-> QUERY_MODEL_GATEWAY_ROUTE_API,
                    payload |-> payload.value,
                    meta |-> [id |-> id.value, startTime |-> startTime.value]]]

\* Variant: an identical invocation still in flight is joined, not re-issued.
queryModelGatewayRouteApi_deduplicated(w, route, data) ==
    LET request == [gateway_path |-> "api/2.0/gateway/" \o route.name \o "/invocations",
                    json_data |-> [data |-> data]]
        inFlight == {k \in DOMAIN w.calls :
                        /\ w.calls[k].method = "POST"
                        /\ w.calls[k].request = request
                        /\ w.promises[w.calls[k].promise].state = "pending"}
        payload == IF inFlight = {}
                   THEN gatewayProxyPost(w, request)
                   ELSE [w |-> w, value |-> w.calls[CHOOSE k \in inFlight : TRUE].promise]
        id == getUUID(payload.w)
        startTime == performanceNow(id.w)
    IN  [w |-> startTime.w,
         value |-> [type |-> QUERY_MODEL_GATEWAY_ROUTE_API,
                    payload |-> payload.value,
                    meta |-> [id |-> id.value, startTime |-> startTime.value]]]

\* Variant: the meta is built before the request is issued.
queryModelGatewayRouteApi_metaFirst(w, route, data) ==
    LET id == getUUID(w)
        startTime == performanceNow(id.w)
        payload == gatewayProxyPost(startTime.w,
                       [gateway_path |-> "api/2.0/gateway/" \o route.name \o "/invocations",
                        json_data |-> [data |-> data]])
    IN  [w |-> payload.w,
         value |-> [type |-> QUERY_MODEL_GATEWAY_ROUTE_API,
                    payload |-> payload.value,
                    meta |-> [id |-> id.value, startTime |-> startTime.value]]]

queryModelGatewayRouteApi(w, route, data) ==
    LET payload == gatewayProxyPost(w,
                       [gateway_path |-> "api/2.0/gateway/" \o route.name \o "/invocations",
                        json_data |-> [data |-> data]])
        id == getUUID(payload.w)
        startTime == performanceNow(id.w)
    IN  [w |-> startTime.w,
         value |-> [type |-> QUERY_MODEL_GATEWAY_ROUTE_API,
                    payload |-> payload.value,
                    meta |-> [id |-> id.value, startTime |-> startTime.value]]]

\* ------------------------------------------------------- transitions
Init ==
    /\ calls = <<>>
    /\ promises = <<>>
    /\ uuid = 1
    /\ clock = 0
    /\ log = <<>>
    /\ actions = <<>>
    /\ invocations = <<>>

\* A creator call is one synchronous step: its effects on the world and the
\* returned action appear together.
Return(r, creator, args) ==
    /\ calls' = r.w.calls
    /\ promises' = r.w.promises
    /\ uuid' = r.w.uuid
    /\ log' = r.w.log
    /\ actions' = Append(actions, r.value)
    /\ invocations' = Append(invocations, [creator |-> creator, args |-> args])
    /\ UNCHANGED clock

Search ==
    /\ Len(invocations) < MaxCalls
    /\ \E filter \in Filters :
          Return(searchModelGatewayRoutesApi(World, filter), "search", <<filter>>)

GetRoute ==
    /\ Len(invocations) < MaxCalls
    /\ \E routeName \in RouteNames :
          Return(getModelGatewayRouteApi(World, routeName), "get", <<routeName>>)

Query ==
    /\ Len(invocations) < MaxCalls
    /\ \E route \in Routes, data \in QueryPayloads :
          Return(queryModelGatewayRouteApi(World, route, data), "query", <<route, data>>)

\* The HTTP client settles a pending promise in a later task of the event loop.
Settle(p, state, value) ==
    /\ promises[p].state = "pending"
    /\ promises' = [promises EXCEPT
                      ![p] = [state |-> state, value |-> value]]
    /\ UNCHANGED <<calls, uuid, clock, log, actions, invocations>>

Resolve == \E p \in DOMAIN promises, v \in Responses : Settle(p, "resolved", v)

Reject == \E p \in DOMAIN promises, e \in Errors : Settle(p, "rejected", e)

Tick ==
    /\ clock < MaxClock
    /\ clock' = clock + 1
    /\ UNCHANGED <<calls, promises, uuid, log, actions, invocations>>

Next == Search \/ GetRoute \/ Query \/ Resolve \/ Reject \/ Tick

Spec == Init /\ [][Next]_vars

\* ------------------------------------------------------- reading the state
Creator(i) == invocations[i].creator
Arg(i, k) == invocations[i].args[k]

\* Every creator call so far has its own request and its own action.
OnePerCall ==
    /\ Len(calls) = Len(invocations)
    /\ Len(actions) = Len(invocations)

IsRequest(r) == DOMAIN r = {"gateway_path", "json_data"}

\* ------------------------------------------------------- C1
\* C1: queryModelGatewayRouteApi(r, d) issues a POST whose gateway_path is
\* 'api/2.0/gateway/' + r.name + '/invocations' and whose json_data is
\* {data: d}, and returns an action of type QUERY_MODEL_GATEWAY_ROUTE_API
\* whose payload is the promise that POST returned.  For route {name: "chat"}
\* and payload {prompt: "hi"} the path is api/2.0/gateway/chat/invocations and
\* the body is {data: {prompt: "hi"}}.
C1_QueryRequest ==
    /\ OnePerCall
    /\ \A i \in DOMAIN invocations :
          Creator(i) = "query" =>
             /\ calls[i].method = "POST"
             /\ IsRequest(calls[i].request)
             /\ calls[i].request.gateway_path
                   = "api/2.0/gateway/" \o Arg(i, 1).name \o "/invocations"
             /\ calls[i].request.json_data = [data |-> Arg(i, 2)]
             /\ DOMAIN calls[i].request.json_data = {"data"}
             /\ actions[i].type = "QUERY_MODEL_GATEWAY_ROUTE_API"
             /\ actions[i].payload = calls[i].promise
             /\ (Arg(i, 1).name = "chat" /\ Arg(i, 2) = [prompt |-> "hi"] =>
                   /\ calls[i].request.gateway_path = "api/2.0/gateway/chat/invocations"
                   /\ calls[i].request.json_data = [data |-> [prompt |-> "hi"]])

C1_Witness ==
    \E i \in DOMAIN actions :
       /\ Creator(i) = "query"
       /\ Arg(i, 1).name = "chat"
       /\ Arg(i, 2) = [prompt |-> "hi"]
       /\ i \in DOMAIN calls
       /\ calls[i].request.gateway_path = "api/2.0/gateway/chat/invocations"

\* ------------------------------------------------------- C2
\* C2: getModelGatewayRouteApi(n) issues a GET whose gateway_path is
\* 'api/2.0/gateway/routes/' + n and whose json_data is the empty object, and
\* returns an action of type GET_MODEL_GATEWAY_ROUTE_API whose payload is the
\* promise that GET returned.  For "chat" the path is
\* api/2.0/gateway/routes/chat.
C2_GetRequest ==
    /\ OnePerCall
    /\ \A i \in DOMAIN invocations :
          Creator(i) = "get" =>
             /\ calls[i].method = "GET"
             /\ IsRequest(calls[i].request)
             /\ calls[i].request.gateway_path = "api/2.0/gateway/routes/" \o Arg(i, 1)
             /\ DOMAIN calls[i].request.json_data = {}
             /\ actions[i].type = "GET_MODEL_GATEWAY_ROUTE_API"
             /\ actions[i].payload = calls[i].promise
             /\ (Arg(i, 1) = "chat" =>
                   calls[i].request.gateway_path = "api/2.0/gateway/routes/chat")

C2_Witness ==
    \E i \in DOMAIN actions :
       /\ Creator(i) = "get"
       /\ Arg(i, 1) = "chat"
       /\ i \in DOMAIN calls
       /\ calls[i].request.gateway_path = "api/2.0/gateway/routes/chat"
       /\ actions[i].type = "GET_MODEL_GATEWAY_ROUTE_API"

\* ------------------------------------------------------- C3
\* C3: searchModelGatewayRoutesApi(f) issues a GET whose gateway_path is
\* 'api/2.0/gateway/routes/' and whose json_data is {filter: f}, f verbatim;
\* called with no filter it issues the same GET with filter undefined; the
\* action has type SEARCH_MODEL_GATEWAY_ROUTES_API.
C3_SearchRequest ==
    /\ OnePerCall
    /\ \A i \in DOMAIN invocations :
          Creator(i) = "search" =>
             /\ calls[i].method = "GET"
             /\ IsRequest(calls[i].request)
             /\ calls[i].request.gateway_path = "api/2.0/gateway/routes/"
             /\ DOMAIN calls[i].request.json_data = {"filter"}
             /\ calls[i].request.json_data.filter = Arg(i, 1)
             /\ (Arg(i, 1) = JSUndefined =>
                   calls[i].request.json_data.filter.type = "undefined")
             /\ actions[i].type = "SEARCH_MODEL_GATEWAY_ROUTES_API"
             /\ actions[i].payload = calls[i].promise

\* A call without a filter and a call with a filter padded with blanks.
C3_Witness ==
    /\ OnePerCall
    /\ \E i, j \in DOMAIN actions :
          /\ Creator(i) = "search" /\ Creator(j) = "search"
          /\ Arg(i, 1) = JSUndefined
          /\ calls[i].request.json_data.filter = JSUndefined
          /\ Arg(j, 1) = JSString(" name = 'chat' ")
          /\ calls[j].request.json_data.filter.value = " name = 'chat' "

\* ------------------------------------------------------- C4
Steps(name) == SelectSeq(log, LAMBDA e : e.step = name)

\* C4: every returned action carries a meta.id obtained from one fresh call
\* to the correlation-id generator: the i-th action's id is the value the
\* i-th call of the generator returned, and the ids of all actions produced
\* so far are pairwise distinct, also for calls with identical arguments.
C4_FreshIds ==
    /\ Len(Steps("getUUID")) = Len(actions)
    /\ \A i \in DOMAIN actions : actions[i].meta.id = Steps("getUUID")[i].ref
    /\ \A i, j \in DOMAIN actions : i # j => actions[i].meta.id # actions[j].meta.id

\* Two calls with identical arguments, with different ids.
C4_Witness ==
    \E i, j \in DOMAIN actions :
       /\ i # j
       /\ Creator(i) = Creator(j)
       /\ Arg(i, 1) = Arg(j, 1)
       /\ actions[i].meta.id # actions[j].meta.id

\* ------------------------------------------------------- C5
\* C5: each creator call issues exactly one request through the proxy client,
\* at the moment the action is created: after any sequence of calls and any
\* outcomes the number of requests issued equals the number of creator calls,
\* the i-th action carries the promise of the i-th request, and no two calls
\* share a request (no retry, no caching, no de-duplication).
C5_OneRequestPerCall ==
    /\ OnePerCall
    /\ Len(Steps("gatewayProxyGet")) + Len(Steps("gatewayProxyPost")) = Len(invocations)
    /\ \A i \in DOMAIN actions : actions[i].payload = calls[i].promise
    /\ \A i, j \in DOMAIN calls : i # j => calls[i].promise # calls[j].promise

\* The same call made twice, the first request having already failed.
C5_Witness ==
    /\ Len(calls) = 2
    /\ Len(invocations) = 2
    /\ Creator(1) = "get" /\ Creator(2) = "get"
    /\ Arg(1, 1) = Arg(2, 1)
    /\ promises[calls[1].promise].state = "rejected"
    /\ calls[1].request = calls[2].request

\* ------------------------------------------------------- C6
TypeOf(creator) ==
    CASE creator = "search" -> "SEARCH_MODEL_GATEWAY_ROUTES_API"
      [] creator = "get" -> "GET_MODEL_GATEWAY_ROUTE_API"
      [] creator = "query" -> "QUERY_MODEL_GATEWAY_ROUTE_API"

MetaOf(creator) ==
    IF creator = "query" THEN {"id", "startTime"} ELSE {"id"}

WellFormed(a) ==
    /\ DOMAIN a = {"type", "payload", "meta"}
    /\ a.payload \in DOMAIN promises
    /\ "id" \in DOMAIN a.meta

\* C6: when the request of a creator call fails, the creator has returned a
\* well-formed action and the failure appears only as the rejection of the
\* action's payload promise, with the proxy client's error unchanged; the
\* action itself is what it was before the failure, and its type and the
\* fields of its meta are those of a successful call.
C6_RejectionPassesThrough ==
    [][ /\ Len(calls') = Len(actions')
        /\ \A i \in DOMAIN actions' :
              /\ i \in DOMAIN actions => actions'[i] = actions[i]
              /\ promises'[calls'[i].promise].state = "rejected" =>
                    /\ WellFormed(actions'[i])
                    /\ promises'[actions'[i].payload].state = "rejected"
                    /\ promises'[actions'[i].payload].value
                          = promises'[calls'[i].promise].value
                    /\ actions'[i].type = TypeOf(invocations'[i].creator)
                    /\ DOMAIN actions'[i].meta = MetaOf(invocations'[i].creator)
      ]_vars

\* One action of each of two creators, both failed, with different errors.
C6_Witness ==
    /\ OnePerCall
    /\ \E i, j \in DOMAIN actions :
          /\ Creator(i) = "search" /\ Creator(j) = "query"
          /\ promises[actions[i].payload].state = "rejected"
          /\ promises[actions[i].payload].value = "HTTP 500"
          /\ promises[actions[j].payload].state = "rejected"
          /\ promises[actions[j].payload].value = "transport"

\* ------------------------------------------------------- C7
SameCall(i, j) ==
    /\ invocations[i].creator = invocations[j].creator
    /\ invocations[i].args = invocations[j].args

\* What the calls made so far agree and differ on.
Independent ==
    /\ OnePerCall
    /\ \A i \in DOMAIN actions : actions[i].payload = calls[i].promise
    /\ \A i, j \in DOMAIN actions :
          /\ SameCall(i, j) =>
                /\ actions[i].type = actions[j].type
                /\ calls[i].method = calls[j].method
                /\ calls[i].request = calls[j].request
          /\ i # j =>
                /\ actions[i].payload # actions[j].payload
                /\ actions[i].meta.id # actions[j].meta.id

\* C7: concurrent invocations are independent: each action's payload is the
\* promise of the request its own creator call issued; a step (a settlement
\* or a further creator call) never changes the type, request, meta or
\* payload of an action already returned, nor the outcome of a promise
\* already settled, and a settlement changes the state of one promise only;
\* two calls with identical arguments yield actions that agree on type and
\* request descriptor and differ in correlation id and promise.
C7_Independent ==
    [][ /\ Independent'
        /\ \A i \in DOMAIN actions :
              /\ actions'[i] = actions[i]
              /\ calls'[i] = calls[i]
              /\ invocations'[i] = invocations[i]
        /\ \A p \in DOMAIN promises :
              promises[p].state # "pending" => promises'[p] = promises[p]
        /\ \A p, q \in DOMAIN promises :
              promises'[p] # promises[p] /\ promises'[q] # promises[q] => p = q
      ]_vars

\* Two identical invoke calls in flight at once, the later one settled while
\* the earlier one is still pending.
C7_Witness ==
    /\ Len(actions) = 2
    /\ Len(invocations) = 2
    /\ Creator(1) = "query"
    /\ SameCall(1, 2)
    /\ promises[actions[1].payload].state = "pending"
    /\ promises[actions[2].payload].state = "rejected"

\* ------------------------------------------------------- C8
\* C8: the start time is recorded only for the invoke operation: the meta of
\* an action of queryModelGatewayRouteApi has exactly the fields id and
\* startTime, the meta of an action of searchModelGatewayRoutesApi or of
\* getModelGatewayRouteApi has exactly the field id.
C8_StartTimeOnlyForQuery ==
    /\ Len(actions) = Len(invocations)
    /\ \A i \in DOMAIN actions :
          /\ Creator(i) = "query" => DOMAIN actions[i].meta = {"id", "startTime"}
          /\ Creator(i) \in {"search", "get"} => DOMAIN actions[i].meta = {"id"}

C8_Witness ==
    \E i, j \in DOMAIN actions :
       /\ Creator(i) = "query"
       /\ "startTime" \in DOMAIN actions[i].meta
       /\ Creator(j) \in {"search", "get"}
       /\ "startTime" \notin DOMAIN actions[j].meta

\* ------------------------------------------------------- C9
\* The steps of the i-th call, an invoke call, as the log has them.
QuerySteps(i) ==
    \E k \in DOMAIN log :
       /\ k + 2 \in DOMAIN log
       /\ log[k] = [step |-> "gatewayProxyPost", ref |-> actions[i].payload]
       /\ log[k + 1] = [step |-> "getUUID", ref |-> actions[i].meta.id]
       /\ log[k + 2] = [step |-> "performance.now", ref |-> actions[i].meta.startTime]

\* C9: within one call of queryModelGatewayRouteApi the POST is issued, then
\* the correlation id is generated, then the clock is read for startTime, in
\* one synchronous step with nothing in between; the payload is still pending
\* when the action is returned, and when it settles startTime has been
\* recorded and is not later than the time of the settlement.
C9_QueryStepOrder ==
    [][ /\ Len(actions') = Len(invocations')
        /\ \A i \in DOMAIN actions' :
              invocations'[i].creator = "query" =>
                 /\ "startTime" \in DOMAIN actions'[i].meta
                 /\ QuerySteps(i)'
                 /\ actions'[i].payload \in DOMAIN promises'
                 /\ actions'[i].meta.startTime <= clock'
                 /\ i \notin DOMAIN actions =>
                       promises'[actions'[i].payload].state = "pending"
                 /\ (/\ i \in DOMAIN actions
                     /\ actions[i].payload \in DOMAIN promises
                     /\ promises[actions[i].payload].state = "pending"
                     /\ promises'[actions'[i].payload].state # "pending") =>
                       /\ "startTime" \in DOMAIN actions[i].meta
                       /\ actions[i].meta.startTime <= clock
      ]_vars

\* An invoke call made after the clock has advanced, then settled.
C9_Witness ==
    \E i \in DOMAIN actions :
       /\ Creator(i) = "query"
       /\ actions[i].meta.startTime = 1
       /\ clock >= 1
       /\ promises[actions[i].payload].state = "resolved"

\* ------------------------------------------------------- C10
PathOf(i) == calls[i].request.gateway_path

\* C10: the route name enters the path verbatim, so the path is an injective
\* function of the name: two get-route calls with distinct names have
\* distinct paths, two invoke calls with distinct names have distinct paths,
\* and the get-route path equals the list-routes path
\* 'api/2.0/gateway/routes/' for the empty name only.
C10_PathInjective ==
    /\ OnePerCall
    /\ \A i, j \in DOMAIN calls :
          /\ Creator(i) = "get" /\ Creator(j) = "get" =>
                (Arg(i, 1) # Arg(j, 1) => PathOf(i) # PathOf(j))
          /\ Creator(i) = "query" /\ Creator(j) = "query" =>
                (Arg(i, 1).name # Arg(j, 1).name => PathOf(i) # PathOf(j))
          /\ Creator(i) = "get" /\ Creator(j) = "search" =>
                (PathOf(i) = PathOf(j) <=> Arg(i, 1) = "")
    /\ \A i \in DOMAIN calls :
          Creator(i) = "get" =>
             (PathOf(i) = "api/2.0/gateway/routes/" <=> Arg(i, 1) = "")

\* Two get-route calls whose names differ by a leading blank only.
C10_Witness ==
    /\ Len(calls) = 2
    /\ Len(invocations) = 2
    /\ Creator(1) = "get" /\ Creator(2) = "get"
    /\ Arg(1, 1) = "chat"
    /\ Arg(2, 1) = " chat"
    /\ PathOf(1) # PathOf(2)

====
